---- MODULE Spec2Model ----
(***************************************************************************)
(* STOMP-over-WebSocket client (stomp_ws/stomp.py).                        *)
(*                                                                         *)
(* Text is a sequence of Unicode code points.  An optional value (Python   *)
(* None or a str) is a sequence of length 0 (None) or 1 (<<text>>).        *)
(* A Python dict is the sequence of its <<key, value>> items in insertion  *)
(* order.                                                                  *)
(***************************************************************************)
EXTENDS Integers, Sequences, FiniteSets, TLC

\* ------------------------------------------------------------------ bounds
\* Frames handed to the transport before the caller stops issuing writes.
MaxSent == 2
\* subscribe() calls recorded.
MaxSubs == 2
\* Headers of a frame given to the codec.
MaxHeaders == 2

\* --------------------------------------------------------------- constants
\* BYTE['LF']
LF == 10
\* BYTE['NULL']
NULL == 0
\* ':' of "key:value"
COLON == 58

None == << >>
Some(x) == <<x>>

\* 'CONNECTED'
CMD_CONNECTED == <<67, 79, 78, 78, 69, 67, 84, 69, 68>>
\* 'ERROR'
CMD_ERROR == <<69, 82, 82, 79, 82>>
\* 'MESSAGE'
CMD_MESSAGE == <<77, 69, 83, 83, 65, 71, 69>>
\* 'CONNECT'
CMD_CONNECT == <<67, 79, 78, 78, 69, 67, 84>>
\* 'SUBSCRIBE'
CMD_SUBSCRIBE == <<83, 85, 66, 83, 67, 82, 73, 66, 69>>
\* 'SEND'
CMD_SEND == <<83, 69, 78, 68>>
\* 'DISCONNECT'
CMD_DISCONNECT == <<68, 73, 83, 67, 79, 78, 78, 69, 67, 84>>
\* '1.0,1.1'
VERSIONS == <<49, 46, 48, 44, 49, 46, 49>>
\* '10000,10000'
HEART_BEAT == <<49, 48, 48, 48, 48, 44, 49, 48, 48, 48, 48>>
\* 'host'
K_host == <<104, 111, 115, 116>>
\* 'accept-version'
K_accept_version == <<97, 99, 99, 101, 112, 116, 45, 118, 101, 114, 115, 105, 111, 110>>
\* 'heart-beat'
K_heart_beat == <<104, 101, 97, 114, 116, 45, 98, 101, 97, 116>>
\* 'login'
K_login == <<108, 111, 103, 105, 110>>
\* 'passcode'
K_passcode == <<112, 97, 115, 115, 99, 111, 100, 101>>
\* 'id'
K_id == <<105, 100>>
\* 'ack'
K_ack == <<97, 99, 107>>
\* 'destination'
K_destination == <<100, 101, 115, 116, 105, 110, 97, 116, 105, 111, 110>>
\* 'content-length'
K_content_length == <<99, 111, 110, 116, 101, 110, 116, 45, 108, 101, 110, 103, 116, 104>>
\* 'client'
V_client == <<99, 108, 105, 101, 110, 116>>
\* 'ws://'
WS_PREFIX == <<119, 115, 58, 47, 47>>
\* 'wss://'
WSS_PREFIX == <<119, 115, 115, 58, 47, 47>>
\* '/websocket'
WEBSOCKET_SUFFIX == <<47, 119, 101, 98, 115, 111, 99, 107, 101, 116>>
\* 'h'
Host == <<104>>
\* 'h:61614'
HostPort == <<104, 58, 54, 49, 54, 49, 52>>
\* 'u'
User == <<117>>
\* 'p'
Pass == <<112>>
\* '/topic/x'
TopicX == <<47, 116, 111, 112, 105, 99, 47, 120>>
\* '/topic/y'
TopicY == <<47, 116, 111, 112, 105, 99, 47, 121>>
\* 'abc'
Abc == <<97, 98, 99>>
\* 'sub-1793257322-8cc469d7' and 'sub-1793257322-39e52437'
SubA ==
    <<115, 117, 98, 45, 49, 55, 57, 51, 50, 53, 55, 51, 50, 50, 45, 56, 99, 99, 52, 54, 57, 100, 55>>
SubB ==
    <<115, 117, 98, 45, 49, 55, 57, 51, 50, 53, 55, 51, 50, 50, 45, 51, 57, 101, 53, 50, 52, 51, 55>>
\* 'CONNECTED\nheart-beat:0,0\n\n\x00'
F_CONNECTED == <<67, 79, 78, 78, 69, 67, 84, 69, 68, 10, 104, 101, 97, 114, 116, 45, 98, 101, 97, 116, 58, 48, 44, 48, 10, 10, 0>>
\* 'ERROR\nmessage:bad creds\n\n\x00'
F_ERROR == <<69, 82, 82, 79, 82, 10, 109, 101, 115, 115, 97, 103, 101, 58, 98, 97, 100, 32, 99, 114, 101, 100, 115, 10, 10, 0>>
\* 'MESSAGE\ndestination:/topic/x\n\nhello\x00'
F_MSG_X == <<77, 69, 83, 83, 65, 71, 69, 10, 100, 101, 115, 116, 105, 110, 97, 116, 105, 111, 110, 58, 47, 116, 111, 112, 105, 99, 47, 120, 10, 10, 104, 101, 108, 108, 111, 0>>
\* 'MESSAGE\ndestination:/topic/y\n\nhello\x00'
F_MSG_Y == <<77, 69, 83, 83, 65, 71, 69, 10, 100, 101, 115, 116, 105, 110, 97, 116, 105, 111, 110, 58, 47, 116, 111, 112, 105, 99, 47, 121, 10, 10, 104, 101, 108, 108, 111, 0>>
\* 'MESSAGE\n\nhello\x00'
F_MSG_NODEST == <<77, 69, 83, 83, 65, 71, 69, 10, 10, 104, 101, 108, 108, 111, 0>>
\* 'MESSAGE\ndestination:/topic/x\n\n\x00'
F_MSG_X_EMPTY == <<77, 69, 83, 83, 65, 71, 69, 10, 100, 101, 115, 116, 105, 110, 97, 116, 105, 111, 110, 58, 47, 116, 111, 112, 105, 99, 47, 120, 10, 10, 0>>
\* '\n'
F_HEARTBEAT == <<10>>

\* ------------------------------------------------------------ text helpers
\* a + b + ... for a sequence of texts (''.join)
RECURSIVE Join(_)
Join(parts) ==
    IF parts = << >> THEN << >> ELSE Head(parts) \o Join(Tail(parts))

\* str.split(sep) for a one-character separator: the texts between
\* consecutive separators, one more than there are separators
Split(s, sep) ==
    LET seps == {i \in 1..Len(s) : s[i] = sep}
        n == Cardinality(seps)
        pos(k) == IF k = 0 THEN 0
                  ELSE IF k = n + 1 THEN Len(s) + 1
                  ELSE CHOOSE p \in seps :
                           Cardinality({q \in seps : q < p}) = k - 1
    IN [k \in 1..n + 1 |-> SubSeq(s, pos(k - 1) + 1, pos(k) - 1)]

\* str.split(':', 1)
SplitFirstColon(line) ==
    LET hits == {i \in 1..Len(line) : line[i] = COLON} IN
    IF hits = {} THEN <<line>>
    ELSE LET k == CHOOSE i \in hits : \A j \in hits : i <= j IN
         <<SubSeq(line, 1, k - 1), SubSeq(line, k + 1, Len(line))>>

\* characters str.strip() removes
IsSpace(ch) ==
    \/ ch \in {9, 10, 11, 12, 13, 28, 29, 30, 31, 32, 133, 160}
    \/ ch \in {5760, 8232, 8233, 8239, 8287, 12288}
    \/ ch \in 8192..8202

\* str.strip()
Strip(s) ==
    LET keep == {i \in 1..Len(s) : ~IsSpace(s[i])} IN
    IF keep = {} THEN << >>
    ELSE LET lo == CHOOSE i \in keep : \A j \in keep : i <= j
             hi == CHOOSE i \in keep : \A j \in keep : j <= i
         IN SubSeq(s, lo, hi)

\* str(n) for a non-negative int
RECURSIVE Str(_)
Str(n) == IF n < 10 THEN <<48 + n>> ELSE Str(n \div 10) \o <<48 + (n % 10)>>

\* ------------------------------------------------------------ dict helpers
DictHas(d, k) == \E i \in 1..Len(d) : d[i][1] = k

DictGet(d, k) == d[CHOOSE i \in 1..Len(d) : d[i][1] = k][2]

\* d[k] = v
DictSet(d, k, v) ==
    IF DictHas(d, k)
    THEN [i \in 1..Len(d) |-> IF d[i][1] = k THEN <<k, v>> ELSE d[i]]
    ELSE Append(d, <<k, v>>)

\* ------------------------------------------------------------------- codec
\* The frame text Dispatcher._transmit builds before writing it.
Frame(command, headers, msg) ==
    Join(<<command \o <<LF>>>>
         \o [i \in 1..Len(headers) |->
                headers[i][1] \o <<COLON>> \o headers[i][2] \o <<LF>>]
         \o << <<LF>> >>
         \o (IF msg # None THEN <<msg[1]>> ELSE << >>)
         \o << <<NULL>> >>)

\* a decoder that ends the header loop at the first line without a colon
_parse_messageStrict(frame) ==
    LET lines == Split(frame, LF)
        command == Strip(lines[1])
        ends == {i \in 2..Len(lines) : Len(SplitFirstColon(lines[i])) # 2}
        stop == IF ends = {} THEN Len(lines) + 1
                ELSE CHOOSE i \in ends : \A j \in ends : i <= j
        H[i \in 1..stop - 1] ==
            IF i = 1 THEN << >>
            ELSE LET parts == SplitFirstColon(lines[i]) IN
                 DictSet(H[i - 1], parts[1], parts[2])
        headers == H[stop - 1]
        body == IF stop + 1 <= Len(lines)
                THEN IF lines[stop + 1] = <<NULL>> THEN None
                     ELSE Some(lines[stop + 1])
                ELSE None
    IN <<command, headers, body>>

\* Dispatcher._parse_message: <<command, headers, body>>
_parse_message(frame) ==
    LET lines == Split(frame, LF)
        command == Strip(lines[1])
        \* first index (1-based) at or after the second line that ends the
        \* header loop: an empty line, or one past the last line
        ends == {i \in 2..Len(lines) : lines[i] = << >>}
        stop == IF ends = {} THEN Len(lines) + 1
                ELSE CHOOSE i \in ends : \A j \in ends : i <= j
        H[i \in 1..stop - 1] ==
            IF i = 1 THEN << >>
            ELSE LET parts == SplitFirstColon(lines[i]) IN
                 IF Len(parts) = 2 THEN DictSet(H[i - 1], parts[1], parts[2])
                 ELSE H[i - 1]
        headers == H[stop - 1]
        body == IF stop + 1 <= Len(lines)
                THEN IF lines[stop + 1] = <<NULL>> THEN None
                     ELSE Some(lines[stop + 1])
                ELSE None
    IN <<command, headers, body>>

\* ------------------------------------------------------------------- state
VARIABLES
    cfg,            \* Stomp.url / username / password set by Stomp.__init__
    connected,      \* Stomp.connected: "unset" (no attribute), "False", "True"
    registry,       \* Stomp.callback_registry: dict destination -> callback
    pc,             \* where the calling thread is: <<"idle">>,
                    \* <<"connect_wait">>, <<"subscribe_tx", destination>>
    linkUp,         \* the WebSocket is open (ws.send does not raise)
    wsLog,          \* texts handed to ws.send, in order
    subLog,         \* subscribe(destination, callback) calls, in order
    lastEvt,        \* last transport event delivered since connect() was last
                    \* called: "none", "message", "error", "close"
    lastMsg,        \* the text of that event when it is a message
    invoked,        \* callback invocations <<callback, body>> of that message
    report,         \* what the last handler or write printed
    raised,         \* exception that left the last _on_message or facade
                    \* call: "none", "callback_error", "send_error",
                    \* "AttributeError", "KeyboardInterrupt"
    connectResult,  \* return value of the last connect(): "none" while there
                    \* is none, else "True" / "False"; "not called" in runs
                    \* of main() until main() calls connect()
    c_pc,           \* codec run: "off", "input", "encoded", "decoded"
    c_in,           \* codec run: <<command, headers, body>> given to _transmit
    c_wire,         \* codec run: the frame text
    c_out,          \* codec run: result of _parse_message
    hbPc,           \* each heartbeat thread's position in heartbeat_loop:
                    \* "off" (not started), "loop" (top of while True),
                    \* "checked" (passed the connected test), "in_send"
                    \* (inside ws.send), "dead" (an exception ended it)
    hbInterval,     \* each heartbeat thread's interval argument, seconds
    hbLast,         \* <<thread, outcome>> of the last heartbeat write:
                    \* "ok", "closed", "other"; << >> before any
    opened,         \* Dispatcher.opened: "unset", "False", "True"
    ctorPc,         \* Stomp.__init__: "new", "started" (transport thread
                    \* running), "wait" (flag cleared, polling), "returned"
                    \* (Dispatcher() has returned), "done" (callback_registry
                    \* assigned, the constructor has returned)
    openDelivered   \* the transport has called _on_open

sessionVars == <<cfg, connected, registry, pc, linkUp, wsLog, subLog, lastEvt,
                 lastMsg, invoked, report, raised, connectResult>>
codecVars == <<c_pc, c_in, c_wire, c_out>>
threadVars == <<hbPc, hbInterval, hbLast, opened, ctorPc, openDelivered>>
vars == <<cfg, connected, registry, pc, linkUp, wsLog, subLog, lastEvt,
          lastMsg, invoked, report, raised, connectResult,
          c_pc, c_in, c_wire, c_out,
          hbPc, hbInterval, hbLast, opened, ctorPc, openDelivered>>

\* ------------------------------------------------------------------ inputs
Destinations == {TopicX, TopicY}
Callbacks == {"cb1", "cb2"}
\* send() is called with these
SendDestinations == {TopicX}
Messages == {Abc}
SubIds == {SubA, SubB}
\* texts the transport may deliver to _on_message
Inbound == {F_CONNECTED, F_ERROR, F_MSG_X, F_MSG_Y, F_MSG_NODEST,
            F_MSG_X_EMPTY, F_HEARTBEAT}

\* Stomp.__init__: url, username, password
StompInit(host, sockjs, wss, username, password) ==
    LET ws_host == IF ~sockjs THEN host ELSE host \o WEBSOCKET_SUFFIX
        protocol == IF ~wss THEN WS_PREFIX ELSE WSS_PREFIX
    IN [url |-> protocol \o ws_host, username |-> username,
        password |-> password]

Configs == {StompInit(Host, FALSE, TRUE, None, None),
            StompInit(Host, TRUE, FALSE, Some(User), Some(Pass))}

\* ---------------------------------------------------------------- transmit
\* what ws.send can do: return ("ok"), raise
\* WebSocketConnectionClosedException / ConnectionResetError ("closed"), or
\* raise another exception ("other")
WriteOutcomes == IF linkUp THEN {"ok", "other"} ELSE {"closed", "other"}

\* a transmit that keeps the frame for later when the connection is closed
_transmitQueued(command, headers, msg, outcome) ==
    /\ outcome \in WriteOutcomes
    /\ wsLog' = IF outcome = "other" THEN wsLog
                ELSE Append(wsLog, Frame(command, headers, msg))
    /\ report' = IF outcome = "closed" THEN "send_failed" ELSE "none"
    /\ raised' = IF outcome = "other" THEN "send_error" ELSE "none"

\* Dispatcher._transmit: build the frame and write it; a closed connection
\* raises in ws.send, which is caught and printed; any other exception of
\* ws.send leaves _transmit and the facade call.
_transmit(command, headers, msg, outcome) ==
    /\ outcome \in WriteOutcomes
    /\ wsLog' = IF outcome = "ok"
                THEN Append(wsLog, Frame(command, headers, msg)) ELSE wsLog
    /\ report' = IF outcome = "closed" THEN "send_failed" ELSE "none"
    /\ raised' = IF outcome = "other" THEN "send_error" ELSE "none"

\* headers of Dispatcher.connect
ConnectHeaders ==
    LET h1 == DictSet(<< >>, K_host, cfg.url)
        h2 == DictSet(h1, K_accept_version, VERSIONS)
        h3 == DictSet(h2, K_heart_beat, HEART_BEAT)
        h4 == IF cfg.username # None
              THEN DictSet(h3, K_login, cfg.username[1]) ELSE h3
    IN IF cfg.password # None
       THEN DictSet(h4, K_passcode, cfg.password[1]) ELSE h4

\* headers of Dispatcher.subscribe
SubscribeHeaders(sub_id, destination) ==
    DictSet(DictSet(DictSet(<< >>, K_id, sub_id), K_ack, V_client),
            K_destination, destination)

\* headers of Dispatcher.send
SendHeaders(destination, message) ==
    DictSet(DictSet(<< >>, K_destination, destination),
            K_content_length, Str(Len(message)))

\* heartbeat threads main() starts: one before connect(), one after it
HbThreads == {"hb1", "hb2"}
\* the interval of the first thread and the default of --heartbeat, seconds
DefaultInterval == 10
\* values of --heartbeat (type=int, no range check)
HeartbeatArgs == {DefaultInterval, -1}

\* Dispatcher.__init__ has returned (the socket is open) and no heartbeat
\* thread has been started
Constructed ==
    /\ hbPc = [t \in HbThreads |-> "off"]
    /\ hbInterval = [t \in HbThreads |-> DefaultInterval]
    /\ hbLast = << >>
    /\ opened = "True"
    /\ ctorPc = "done"
    /\ openDelivered = TRUE

\* Stomp.callback_registry while Stomp.__init__ has not assigned it (the
\* attribute does not exist): a value no registry of the program equals
Unassigned == << << << >>, "unassigned" >> >>

\* ------------------------------------------------------------------ facade
Init ==
    /\ cfg \in Configs
    /\ connected = "unset"
    /\ registry = << >>
    /\ pc = <<"idle">>
    /\ linkUp = TRUE
    /\ wsLog = << >>
    /\ subLog = << >>
    /\ lastEvt = "none"
    /\ lastMsg = << >>
    /\ invoked = << >>
    /\ report = "none"
    /\ raised = "none"
    /\ connectResult = "none"
    /\ c_pc = "off"
    /\ c_in = << >>
    /\ c_wire = << >>
    /\ c_out = << >>
    /\ Constructed

CanWrite == Len(wsLog) < MaxSent

\* Stomp.connect, first statement: self.connected = False
ConnectCall ==
    /\ pc = <<"idle">>
    /\ CanWrite
    /\ connected' = "False"
    /\ pc' = <<"connect_tx">>
    /\ connectResult' = "none"
    /\ lastEvt' = "none"
    /\ lastMsg' = << >>
    /\ invoked' = << >>
    /\ UNCHANGED <<cfg, registry, linkUp, wsLog, subLog, report, raised>>
    /\ UNCHANGED codecVars
    /\ UNCHANGED threadVars

\* Stomp.connect, second statement: Dispatcher.connect; an exception that
\* leaves _transmit ends connect() before the wait loop
ConnectTransmit(outcome) ==
    /\ pc = <<"connect_tx">>
    /\ _transmit(CMD_CONNECT, ConnectHeaders, None, outcome)
    /\ pc' = IF outcome = "other" THEN <<"idle">> ELSE <<"connect_wait">>
    /\ UNCHANGED <<cfg, connected, registry, linkUp, subLog, lastEvt, lastMsg,
                   invoked, connectResult>>
    /\ UNCHANGED codecVars
    /\ UNCHANGED threadVars

\* Stomp.connect wait loop: leaves once the flag is no longer False
ConnectPoll ==
    /\ pc = <<"connect_wait">>
    /\ connected # "False"
    /\ connectResult' = connected
    /\ pc' = <<"idle">>
    /\ UNCHANGED <<cfg, connected, registry, linkUp, wsLog, subLog, lastEvt,
                   lastMsg, invoked, report, raised>>
    /\ UNCHANGED codecVars
    /\ UNCHANGED threadVars

\* a registry that keeps the callback a destination already has
RegisterKeepFirst(reg, destination, callback) ==
    IF DictHas(reg, destination) THEN reg
    ELSE DictSet(reg, destination, callback)

\* self.callback_registry[destination] = callback
Register(reg, destination, callback) == DictSet(reg, destination, callback)

\* Stomp.subscribe, first statement: the registry entry
SubscribeRegister(destination, callback) ==
    /\ pc = <<"idle">>
    /\ Len(subLog) < MaxSubs
    /\ registry' = Register(registry, destination, callback)
    /\ subLog' = Append(subLog, <<destination, callback>>)
    /\ pc' = <<"subscribe_tx", destination>>
    /\ UNCHANGED <<cfg, connected, linkUp, wsLog, lastEvt, lastMsg, invoked,
                   report, raised, connectResult>>
    /\ UNCHANGED codecVars
    /\ UNCHANGED threadVars

\* Stomp.subscribe, second statement: Dispatcher.subscribe
SubscribeTransmit(sub_id, outcome) ==
    /\ pc[1] = "subscribe_tx"
    /\ _transmit(CMD_SUBSCRIBE, SubscribeHeaders(sub_id, pc[2]), None, outcome)
    /\ pc' = <<"idle">>
    /\ UNCHANGED <<cfg, connected, registry, linkUp, subLog, lastEvt, lastMsg,
                   invoked, connectResult>>
    /\ UNCHANGED codecVars
    /\ UNCHANGED threadVars

\* Stomp.send
Send(destination, message, outcome) ==
    /\ pc = <<"idle">>
    /\ CanWrite
    /\ _transmit(CMD_SEND, SendHeaders(destination, message), Some(message),
                 outcome)
    /\ UNCHANGED <<cfg, connected, registry, pc, linkUp, subLog, lastEvt,
                   lastMsg, invoked, connectResult>>
    /\ UNCHANGED codecVars
    /\ UNCHANGED threadVars

\* Stomp.disconnect, the test and Dispatcher.disconnect: with the flag not
\* true nothing happens; an exception that leaves _transmit ends disconnect()
\* before the flag is cleared
Disconnect(outcome) ==
    /\ pc = <<"idle">>
    /\ CanWrite
    /\ IF connected = "True"
       THEN /\ _transmit(CMD_DISCONNECT, << >>, None, outcome)
            /\ pc' = IF outcome = "other" THEN <<"idle">>
                     ELSE <<"disconnect_set">>
       ELSE UNCHANGED <<pc, wsLog, report, raised>>
    /\ UNCHANGED <<cfg, connected, registry, linkUp, subLog, lastEvt, lastMsg,
                   invoked, connectResult>>
    /\ UNCHANGED codecVars
    /\ UNCHANGED threadVars

\* Stomp.disconnect, last statement: self.connected = False
DisconnectClear ==
    /\ pc = <<"disconnect_set">>
    /\ connected' = "False"
    /\ pc' = <<"idle">>
    /\ UNCHANGED <<cfg, registry, linkUp, wsLog, subLog, lastEvt, lastMsg,
                   invoked, report, raised, connectResult>>
    /\ UNCHANGED codecVars
    /\ UNCHANGED threadVars

\* how a call of a registered callback ends: it returns, raises KeyError, or
\* raises another exception
CallbackOutcomes == {"returns", "KeyError", "other"}

\* --------------------------------------------------------------- transport
\* The MESSAGE branch of _on_message: the registry lookup and call
\* callback_registry[headers['destination']](body) and its except KeyError.
\* Gives the invocations made, what is printed, and what is raised. The
\* attribute callback_registry is read first: while Stomp.__init__ has not
\* assigned it the read raises AttributeError, which except KeyError does
\* not catch. A KeyError of the callback itself is caught by the same
\* except; any other exception of the callback leaves _on_message.
DispatchMessage(reg, headers, body, outcome) ==
    IF reg = Unassigned
    THEN [invoked |-> << >>, report |-> "none", raised |-> "AttributeError"]
    ELSE IF DictHas(headers, K_destination)
       /\ DictHas(reg, DictGet(headers, K_destination))
    THEN [invoked |-> <<<<DictGet(reg, DictGet(headers, K_destination)), body>>>>,
          report |-> IF outcome = "KeyError" THEN "warning" ELSE "none",
          raised |-> IF outcome = "other" THEN "callback_error" ELSE "none"]
    ELSE \* KeyError from either subscript, caught
         [invoked |-> << >>, report |-> "warning", raised |-> "none"]

\* Dispatcher._on_message as a function of the flag, the registry, the text
\* and the way the callback ends: the new flag, the invocations, the last
\* print, the exception raised.
OnMessageResult(flag, reg, message, outcome) ==
    LET parsed == _parse_message(message)
        command == parsed[1]
        headers == parsed[2]
        body == parsed[3]
        flag1 == IF command = CMD_CONNECTED THEN "True" ELSE flag
        rep1 == IF command = CMD_CONNECTED THEN "connected" ELSE "none"
        rep2 == IF command = CMD_ERROR THEN "error" ELSE rep1
        msg == IF command = CMD_MESSAGE
               THEN DispatchMessage(reg, headers, body, outcome)
               ELSE [invoked |-> << >>, report |-> rep2, raised |-> "none"]
    IN [connected |-> flag1,
        invoked |-> msg.invoked,
        report |-> IF command = CMD_MESSAGE THEN msg.report ELSE rep2,
        raised |-> msg.raised]

\* the inbound texts that are not MESSAGE frames
NonMessages == {m \in Inbound : _parse_message(m)[1] # CMD_MESSAGE}

\* Dispatcher._on_message, run by the transport thread for one inbound text;
\* with no registry entry, or a text that is not a MESSAGE frame, no callback
\* is called and there is no outcome to choose
_on_message(message) ==
    /\ linkUp
    /\ \E outcome \in (IF registry \in {<< >>, Unassigned}
                          \/ message \in NonMessages
                       THEN {"returns"}
                       ELSE CallbackOutcomes) :
          LET r == OnMessageResult(connected, registry, message, outcome) IN
          /\ connected' = r.connected
          /\ invoked' = r.invoked
          /\ report' = r.report
          /\ raised' = r.raised
    /\ lastEvt' = "message"
    /\ lastMsg' = message
    /\ UNCHANGED <<cfg, registry, pc, linkUp, wsLog, subLog, connectResult>>
    /\ UNCHANGED codecVars
    /\ UNCHANGED threadVars

\* Dispatcher._on_error: prints the error
_on_error ==
    /\ linkUp
    /\ lastEvt' = "error"
    /\ lastMsg' = << >>
    /\ invoked' = << >>
    /\ report' = "ws_error"
    /\ UNCHANGED <<cfg, connected, registry, pc, linkUp, wsLog, subLog,
                   raised, connectResult>>
    /\ UNCHANGED codecVars
    /\ UNCHANGED threadVars

\* Dispatcher._on_close: prints; the socket is closed from here on
_on_close ==
    /\ linkUp
    /\ linkUp' = FALSE
    /\ lastEvt' = "close"
    /\ lastMsg' = << >>
    /\ invoked' = << >>
    /\ report' = "closed"
    /\ UNCHANGED <<cfg, connected, registry, pc, wsLog, subLog, raised,
                   connectResult>>
    /\ UNCHANGED codecVars
    /\ UNCHANGED threadVars

\* every outcome a write can be given; _transmit admits those of WriteOutcomes
Outcomes == {"ok", "closed", "other"}

Next ==
    \/ ConnectCall
    \/ \E o \in Outcomes : ConnectTransmit(o)
    \/ ConnectPoll
    \/ \E d \in Destinations, cb \in Callbacks : SubscribeRegister(d, cb)
    \/ \E id \in SubIds, o \in Outcomes : SubscribeTransmit(id, o)
    \/ \E d \in SendDestinations, m \in Messages, o \in Outcomes : Send(d, m, o)
    \/ \E o \in Outcomes : Disconnect(o)
    \/ DisconnectClear
    \/ \E m \in Inbound : _on_message(m)
    \/ _on_error
    \/ _on_close

Spec == Init /\ [][Next]_vars

\* ---------------------------------------------------------- session runs
\* connect(), send() and disconnect() with the frames and events of the
\* session's life: CONNECTED, ERROR, a heartbeat, error and close
LifeInbound == {F_CONNECTED, F_ERROR, F_HEARTBEAT}

LifeNext ==
    \/ ConnectCall
    \/ \E o \in Outcomes : ConnectTransmit(o)
    \/ ConnectPoll
    \/ \E d \in SendDestinations, m \in Messages, o \in Outcomes : Send(d, m, o)
    \/ \E o \in Outcomes : Disconnect(o)
    \/ DisconnectClear
    \/ \E m \in LifeInbound : _on_message(m)
    \/ _on_error
    \/ _on_close

LifeSpec == Init /\ [][LifeNext]_vars

\* The calling thread keeps running: its wait loop is scheduled again and
\* again (time.sleep(.50) returns).  Nothing is assumed of the transport.
FairSpec == LifeSpec /\ WF_vars(ConnectPoll)

\* ---------------------------------------------------------- routing runs
\* subscribe() and inbound MESSAGE frames on a session whose connect() has
\* returned true
RouteInbound == {F_MSG_X, F_MSG_Y, F_MSG_NODEST, F_MSG_X_EMPTY}

RouteInit ==
    /\ cfg = StompInit(Host, FALSE, TRUE, None, None)
    /\ connected = "True"
    /\ registry = << >>
    /\ pc = <<"idle">>
    /\ linkUp = TRUE
    /\ wsLog = <<Frame(CMD_CONNECT, ConnectHeaders, None)>>
    /\ subLog = << >>
    /\ lastEvt = "message"
    /\ lastMsg = F_CONNECTED
    /\ invoked = << >>
    /\ report = "connected"
    /\ raised = "none"
    /\ connectResult = "True"
    /\ c_pc = "off"
    /\ c_in = << >>
    /\ c_wire = << >>
    /\ c_out = << >>
    /\ Constructed

RouteNext ==
    \/ \E d \in Destinations, cb \in Callbacks : SubscribeRegister(d, cb)
    \/ \E id \in SubIds, o \in Outcomes : SubscribeTransmit(id, o)
    \/ \E m \in RouteInbound : _on_message(m)
    \/ _on_close

RouteSpec == RouteInit /\ [][RouteNext]_vars

\* --------------------------------------------------------------- heartbeat
\* main() of wss-stomp-client.py: the caller connects and disconnects while
\* the heartbeat threads run heartbeat_loop.

\* time.sleep(seconds) raises ValueError for a negative argument
SleepRaises(interval) == interval < 0

\* where heartbeat_loop is after a tick. The tick (the connected test, the
\* write, Dispatcher.heartbeat's except) is followed by time.sleep(interval)
\* inside the try; an exception of the write or of that sleep is caught by
\* except Exception, whose handler logs it and calls time.sleep(interval)
\* itself: when that one raises, the exception leaves the loop and the
\* thread ends.
LoopAfter(interval) ==
    IF SleepRaises(interval) THEN "dead" ELSE "loop"

\* the last thing printed or logged by a tick: "skip" is a tick that failed
\* the connected test, the others are the outcomes of the write
TickReport(outcome, interval, before) ==
    IF outcome = "other" \/ SleepRaises(interval) THEN "heartbeat_error"
    ELSE IF outcome = "closed" THEN "send_failed"
    ELSE before

\* send_heartbeats(client, interval=args.heartbeat) after connect() gave True
HbStartSecond ==
    /\ connectResult = "True"
    /\ hbPc["hb2"] = "off"
    /\ hbPc' = [hbPc EXCEPT !["hb2"] = "loop"]
    /\ \E i \in HeartbeatArgs : hbInterval' = [hbInterval EXCEPT !["hb2"] = i]
    /\ UNCHANGED <<hbLast, opened, ctorPc, openDelivered>>
    /\ UNCHANGED sessionVars
    /\ UNCHANGED codecVars

\* send_heartbeat: the connected test; a tick that fails it returns and the
\* loop sleeps
HbCheck(t) ==
    /\ hbPc[t] = "loop"
    /\ hbPc' = [hbPc EXCEPT ![t] = IF connected = "True" THEN "checked"
                                   ELSE LoopAfter(hbInterval[t])]
    /\ report' = IF connected = "True" THEN report
                 ELSE TickReport("skip", hbInterval[t], report)
    /\ UNCHANGED <<cfg, connected, registry, pc, linkUp, wsLog, subLog,
                   lastEvt, lastMsg, invoked, raised, connectResult>>
    /\ UNCHANGED <<hbInterval, hbLast, opened, ctorPc, openDelivered>>
    /\ UNCHANGED codecVars

\* Dispatcher.heartbeat: the thread enters ws.send
HbEnter(t) ==
    /\ hbPc[t] = "checked"
    /\ CanWrite
    /\ hbPc' = [hbPc EXCEPT ![t] = "in_send"]
    /\ UNCHANGED <<hbInterval, hbLast, opened, ctorPc, openDelivered>>
    /\ UNCHANGED sessionVars
    /\ UNCHANGED codecVars

\* ws.send returns or raises; then the loop sleeps
HbExit(t, outcome) ==
    /\ hbPc[t] = "in_send"
    /\ outcome \in WriteOutcomes
    /\ wsLog' = IF outcome = "ok" THEN Append(wsLog, <<LF>>) ELSE wsLog
    /\ report' = TickReport(outcome, hbInterval[t], report)
    /\ hbLast' = <<t, outcome>>
    /\ hbPc' = [hbPc EXCEPT ![t] = LoopAfter(hbInterval[t])]
    /\ UNCHANGED <<cfg, connected, registry, pc, linkUp, subLog, lastEvt,
                   lastMsg, invoked, raised, connectResult>>
    /\ UNCHANGED <<hbInterval, opened, ctorPc, openDelivered>>
    /\ UNCHANGED codecVars

\* frames the broker sends in these runs
HbInbound == {F_CONNECTED, F_ERROR}

\* main() after Stomp(host:port, sockjs, ssl, username, password) and the
\* first send_heartbeats; --username and --password are required arguments
HbInit ==
    /\ cfg = StompInit(HostPort, FALSE, TRUE, Some(User), Some(Pass))
    /\ connected = "unset"
    /\ registry = << >>
    /\ pc = <<"idle">>
    /\ linkUp = TRUE
    /\ wsLog = << >>
    /\ subLog = << >>
    /\ lastEvt = "none"
    /\ lastMsg = << >>
    /\ invoked = << >>
    /\ report = "none"
    /\ raised = "none"
    /\ connectResult = "not called"
    /\ c_pc = "off"
    /\ c_in = << >>
    /\ c_wire = << >>
    /\ c_out = << >>
    /\ hbPc = [t \in HbThreads |-> IF t = "hb1" THEN "loop" ELSE "off"]
    /\ hbInterval = [t \in HbThreads |-> DefaultInterval]
    /\ hbLast = << >>
    /\ opened = "True"
    /\ ctorPc = "done"
    /\ openDelivered = TRUE

\* main(): connect() is called once, whatever the flag is
MainConnect ==
    /\ connectResult = "not called"
    /\ ConnectCall

\* main(): KeyboardInterrupt raised in connect()'s wait loop; the call is left
\* without a return value and main() goes to its finally clause
MainInterrupt ==
    /\ pc = <<"connect_wait">>
    /\ pc' = <<"idle">>
    /\ raised' = "KeyboardInterrupt"
    /\ UNCHANGED <<cfg, connected, registry, linkUp, wsLog, subLog, lastEvt,
                   lastMsg, invoked, report, connectResult>>
    /\ UNCHANGED codecVars
    /\ UNCHANGED threadVars

\* main(), connect() has returned true and --send is given: send_message
MainSend ==
    /\ connectResult = "True"
    /\ subLog = << >>
    /\ \E o \in Outcomes : Send(TopicX, Abc, o)

\* main(), connect() has returned true and --send is not given:
\* listen_for_messages subscribes once, with message_handler
MainSubscribe ==
    /\ connectResult = "True"
    /\ subLog = << >>
    /\ SubscribeRegister(TopicX, "cb1")

\* main(), finally clause: disconnect()
MainDisconnect ==
    /\ connectResult # "not called"
    /\ \E o \in Outcomes : Disconnect(o)

\* the main thread with the transport thread and the heartbeat threads
HbNext ==
    \/ MainConnect
    \/ MainInterrupt
    \/ \E o \in Outcomes : ConnectTransmit(o)
    \/ ConnectPoll
    \/ MainSend
    \/ MainSubscribe
    \/ \E id \in SubIds, o \in Outcomes : SubscribeTransmit(id, o)
    \/ MainDisconnect
    \/ DisconnectClear
    \/ \E m \in HbInbound : _on_message(m)
    \/ _on_error
    \/ _on_close
    \/ HbStartSecond
    \/ \E t \in HbThreads : HbCheck(t)
    \/ \E t \in HbThreads : HbEnter(t)
    \/ \E t \in HbThreads, o \in Outcomes : HbExit(t, o)

HbSpec == HbInit /\ [][HbNext]_vars

\* -------------------------------------------------------------------- send
\* send() with messages outside ASCII: a, e-acute, the euro sign and an
\* emoji, as Unicode code points
WideChars == {97, 233, 8364, 128512}
MaxMsgLen == 2
WideMessages ==
    UNION {[1..n -> WideChars] : n \in 1..MaxMsgLen}

SendInit ==
    /\ Init
    /\ cfg = StompInit(Host, FALSE, TRUE, None, None)

SendNext ==
    \/ ConnectCall
    \/ \E o \in Outcomes : ConnectTransmit(o)
    \/ ConnectPoll
    \/ _on_message(F_CONNECTED)
    \/ \E m \in WideMessages, o \in Outcomes : Send(TopicX, m, o)
    \/ _on_close

SendSpec == SendInit /\ [][SendNext]_vars

\* ------------------------------------------------------------- constructor
\* Dispatcher.__init__ with the transport thread it starts.

\* arguments of Stomp(host, sockjs, wss, username, password)
CtorConfigs ==
    {StompInit(Host, sockjs, wss, username, password) :
        sockjs \in BOOLEAN, wss \in BOOLEAN,
        username \in {None, Some(User)}, password \in {None, Some(Pass)}}

\* Stomp.__init__ has set url, username and password and calls Dispatcher()
CtorInit ==
    /\ cfg \in CtorConfigs
    /\ connected = "unset"
    /\ registry = Unassigned
    /\ pc = <<"idle">>
    /\ linkUp = TRUE
    /\ wsLog = << >>
    /\ subLog = << >>
    /\ lastEvt = "none"
    /\ lastMsg = << >>
    /\ invoked = << >>
    /\ report = "none"
    /\ raised = "none"
    /\ connectResult = "none"
    /\ c_pc = "off"
    /\ c_in = << >>
    /\ c_wire = << >>
    /\ c_out = << >>
    /\ hbPc = [t \in HbThreads |-> "off"]
    /\ hbInterval = [t \in HbThreads |-> DefaultInterval]
    /\ hbLast = << >>
    /\ opened = "unset"
    /\ ctorPc = "new"
    /\ openDelivered = FALSE

\* Thread(target=self.ws.run_forever, ...).start()
CtorStart ==
    /\ ctorPc = "new"
    /\ ctorPc' = "started"
    /\ UNCHANGED <<hbPc, hbInterval, hbLast, opened, openDelivered>>
    /\ UNCHANGED sessionVars
    /\ UNCHANGED codecVars

\* Dispatcher._on_open, run once by the transport thread
_on_open ==
    /\ ctorPc # "new"
    /\ linkUp
    /\ ~openDelivered
    /\ opened' = "True"
    /\ openDelivered' = TRUE
    /\ UNCHANGED <<hbPc, hbInterval, hbLast, ctorPc>>
    /\ UNCHANGED sessionVars
    /\ UNCHANGED codecVars

\* self.opened = False
CtorClear ==
    /\ ctorPc = "started"
    /\ opened' = "False"
    /\ ctorPc' = "wait"
    /\ UNCHANGED <<hbPc, hbInterval, hbLast, openDelivered>>
    /\ UNCHANGED sessionVars
    /\ UNCHANGED codecVars

\* while self.opened is False: time.sleep(.50)
CtorPoll ==
    /\ ctorPc = "wait"
    /\ ctorPc' = IF opened = "False" THEN "wait" ELSE "returned"
    /\ UNCHANGED <<hbPc, hbInterval, hbLast, opened, openDelivered>>
    /\ UNCHANGED sessionVars
    /\ UNCHANGED codecVars

\* Stomp.__init__ after Dispatcher() has returned:
\* self.callback_registry = {}
CtorAssign ==
    /\ ctorPc = "returned"
    /\ ctorPc' = "done"
    /\ registry' = << >>
    /\ UNCHANGED <<cfg, connected, pc, linkUp, wsLog, subLog, lastEvt,
                   lastMsg, invoked, report, raised, connectResult>>
    /\ UNCHANGED <<hbPc, hbInterval, hbLast, opened, openDelivered>>
    /\ UNCHANGED codecVars

\* frames the broker sends in these runs
CtorInbound == {F_CONNECTED, F_MSG_X, F_MSG_NODEST}

\* the transport thread delivers a text once the socket is open
CtorMessage(message) ==
    /\ openDelivered
    /\ _on_message(message)

CtorNext ==
    \/ CtorStart
    \/ _on_open
    \/ CtorClear
    \/ CtorPoll
    \/ CtorAssign
    \/ \E m \in CtorInbound : CtorMessage(m)

CtorSpec == CtorInit /\ [][CtorNext]_vars

\* both threads keep running
CtorFairSpec ==
    /\ CtorSpec
    /\ WF_vars(CtorClear) /\ WF_vars(CtorPoll) /\ WF_vars(CtorAssign)
    /\ WF_vars(_on_open)

\* ------------------------------------------------------------- codec runs
CodecCommands == {CMD_SEND, CMD_MESSAGE}
CodecKeys == {K_id, K_destination}
CodecValues == {TopicX, <<97, COLON, 98>>, << >>}
CodecBodies == {None, Some(<< >>), Some(Abc)}

\* dicts of at most MaxHeaders items over CodecKeys and CodecValues
CodecHeaders ==
    LET n == IF MaxHeaders < Cardinality(CodecKeys)
             THEN MaxHeaders ELSE Cardinality(CodecKeys) IN
    UNION {{h \in [1..k -> CodecKeys \X CodecValues] :
               \A i, j \in 1..k : i # j => h[i][1] # h[j][1]} : k \in 0..n}

CodecInit ==
    /\ cfg \in Configs
    /\ connected = "unset"
    /\ registry = << >>
    /\ pc = <<"idle">>
    /\ linkUp = TRUE
    /\ wsLog = << >>
    /\ subLog = << >>
    /\ lastEvt = "none"
    /\ lastMsg = << >>
    /\ invoked = << >>
    /\ report = "none"
    /\ raised = "none"
    /\ connectResult = "none"
    /\ c_pc = "input"
    /\ c_in \in CodecCommands \X CodecHeaders \X CodecBodies
    /\ c_wire = << >>
    /\ c_out = << >>
    /\ Constructed

\* the frame _transmit builds for the input
Encode ==
    /\ c_pc = "input"
    /\ c_wire' = Frame(c_in[1], c_in[2], c_in[3])
    /\ c_pc' = "encoded"
    /\ UNCHANGED <<c_in, c_out>>
    /\ UNCHANGED sessionVars
    /\ UNCHANGED threadVars

\* _parse_message of that frame
Decode ==
    /\ c_pc = "encoded"
    /\ c_out' = _parse_message(c_wire)
    /\ c_pc' = "decoded"
    /\ UNCHANGED <<c_in, c_wire>>
    /\ UNCHANGED sessionVars
    /\ UNCHANGED threadVars

CodecNext == Encode \/ Decode

CodecSpec == CodecInit /\ [][CodecNext]_vars

\* ------------------------------------------------------------------ claims
\* first line of a text handed to the transport
FirstLine(text) == Split(text, LF)[1]

\* the command and headers of an inbound text
CommandOf(text) == _parse_message(text)[1]
HeadersOf(text) == _parse_message(text)[2]

\* the inbound MESSAGE frames, and the destination each names (None when it
\* has no destination header)
InboundMessages == {m \in Inbound : CommandOf(m) = CMD_MESSAGE}
InboundConnected == {m \in Inbound : CommandOf(m) = CMD_CONNECTED}
DestinationOf ==
    [m \in InboundMessages |->
        IF DictHas(HeadersOf(m), K_destination)
        THEN Some(DictGet(HeadersOf(m), K_destination)) ELSE None]
MessagesFor ==
    [d \in Destinations |-> {m \in InboundMessages : DestinationOf[m] = Some(d)}]

\* the callbacks subscribe() was called with for d, in call order
SubscribedTo(d) == {i \in 1..Len(subLog) : subLog[i][1] = d}
LastSubscribed(d) ==
    subLog[CHOOSE i \in SubscribedTo(d) : \A j \in SubscribedTo(d) : j <= i][2]

\* The body of a wire frame as the frame grammar gives it: the text after the
\* first empty line up to, not including, the final NULL; absent when there
\* is no such text.
WireBody(text) ==
    LET gaps == {i \in 1..Len(text) - 1 : text[i] = LF /\ text[i + 1] = LF}
        k == CHOOSE i \in gaps : \A j \in gaps : i <= j
        t == SubSeq(text, k + 2, Len(text) - 1)
    IN IF t = << >> THEN None ELSE Some(t)

\* C1: no SEND or SUBSCRIBE frame is handed to the transport before a CONNECT
\* frame has been: every SEND/SUBSCRIBE entry of the write log has a CONNECT
\* entry before it.
C1_NoUseBeforeConnect ==
    \A i \in 1..Len(wsLog) :
        FirstLine(wsLog[i]) \in {CMD_SEND, CMD_SUBSCRIBE}
        => \E j \in 1..i - 1 : FirstLine(wsLog[j]) = CMD_CONNECT

\* C2: once an ERROR frame has been dispatched the session is not Active:
\* while ERROR is the last event delivered, the connected flag is not true.
C2_ErrorFails ==
    (lastEvt = "message" /\ lastMsg = F_ERROR) => connected # "True"

\* C3: a connect() that is waiting when the transport has delivered a
\* CONNECTED frame, an ERROR frame or a close/error event eventually returns,
\* and it returns true only with the session Active.
C3_ConnectReturns ==
    /\ (/\ pc = <<"connect_wait">>
        /\ \/ lastEvt \in {"error", "close"}
           \/ lastEvt = "message" /\ lastMsg \in {F_CONNECTED, F_ERROR})
       ~> (pc = <<"idle">> /\ connectResult # "none")
    /\ [][pc = <<"connect_wait">> /\ connectResult' = "True"
          => connected = "True"]_vars

\* C4: CONNECTED makes a session Active once: in a session whose connect()
\* has already returned true, a further CONNECTED frame leaves the connected
\* flag as it is.
C4_ConnectedOnce ==
    [][\A m \in InboundConnected :
          (connectResult = "True" /\ lastMsg' = m /\ _on_message(m))
          => connected' = connected]_vars

\* C5: a MESSAGE frame for a destination with a registered callback invokes
\* that callback exactly once with the frame's body (the text between the
\* empty line and the final NULL), and invokes nothing else.
C5_MessageBody ==
    [][\A d \in Destinations : \A m \in MessagesFor[d] :
          (lastMsg' = m /\ SubscribedTo(d) # {} /\ _on_message(m))
          => invoked' = <<<<LastSubscribed(d), WireBody(m)>>>>]_vars

\* C6: last writer wins: a MESSAGE frame for d invokes the callback of the
\* latest subscribe(d, .) call, once, and no callback given to an earlier
\* subscribe(d, .) or to a subscribe for another destination.
C6_LastWriterWins ==
    [][\A d \in Destinations : \A m \in MessagesFor[d] :
          (lastMsg' = m /\ SubscribedTo(d) # {} /\ _on_message(m))
          => /\ Len(invoked') = 1
             /\ invoked'[1][1] = LastSubscribed(d)]_vars

C6_Witness ==
    /\ Len(subLog) = 2
    /\ subLog[1][1] = TopicX /\ subLog[2][1] = TopicX
    /\ subLog[1][2] = "cb1" /\ subLog[2][2] = "cb2"
    /\ lastEvt = "message" /\ lastMsg = F_MSG_X
    /\ Len(invoked) = 1 /\ invoked[1][1] = "cb2"

\* an inbound MESSAGE frame that no subscribe() call covers: it has no
\* destination header, or names a destination never subscribed to
IsUnrouted(m) ==
    \/ DestinationOf[m] = None
    \/ \A i \in 1..Len(subLog) : Some(subLog[i][1]) # DestinationOf[m]

\* C7: an unrouted MESSAGE frame is dropped: no callback is invoked, nothing
\* is raised out of _on_message, the connected flag and the registry stay as
\* they are, and a warning is printed.
C7_UnroutedDropped ==
    [][\A m \in InboundMessages :
          (lastMsg' = m /\ IsUnrouted(m) /\ _on_message(m))
          => /\ invoked' = << >>
             /\ raised' = "none"
             /\ report' = "warning"
             /\ connected' = connected
             /\ registry' = registry]_vars

\* C8: decoding the frame encoded from (command, headers, body) gives back
\* (command, headers, body).
C8_RoundTrip == c_pc = "decoded" => c_out = c_in

\* C9: a lone line-feed delivered by the transport is not decoded into a frame
\* whose command is the empty string, and it invokes nothing and leaves the
\* connected flag alone.
C9_HeartbeatDistinct ==
    (lastEvt = "message" /\ lastMsg = F_HEARTBEAT)
    => (CommandOf(lastMsg) # << >> /\ invoked = << >>)

\* C10: disconnect() on an Active session (connect() has returned true) hands
\* the DISCONNECT frame to the transport and then closes the transport: when
\* the call completes the connected flag is false and the socket is closed.
C10_DisconnectCloses ==
    [][(connectResult = "True" /\ pc = <<"disconnect_set">>
        /\ pc' = <<"idle">>)
       => /\ connected' = "False"
          /\ ~linkUp']_vars

\* C11: a transport close or error event leaves the session not Active: in a
\* session whose connect() has returned true, while such an event is the last
\* one delivered, the connected flag is not true.
C11_CloseEndsSession ==
    (connectResult = "True" /\ lastEvt \in {"error", "close"})
    => connected # "True"

\* C12: Closed is terminal: once connect() has returned true and disconnect()
\* has completed (the caller is idle, the connected flag false), no step makes
\* the flag true; only a new connect() call starts a session again.
C12_ClosedTerminal ==
    [][(pc = <<"idle">> /\ connectResult = "True" /\ connected = "False")
       => connected' # "True"]_vars

\* the session is Active as the state machine has it: CONNECTED was received
\* and the last transport event is not an ERROR frame, an error or a close
SessionActive ==
    /\ connected = "True"
    /\ lastEvt \notin {"error", "close"}
    /\ ~(lastEvt = "message" /\ lastMsg = F_ERROR)

\* C13: once connect() has returned, a scheduler tick goes on to write a
\* heartbeat only if the session is Active at that tick; a tick after an ERROR
\* frame, a transport error or close, or disconnect() is a no-op.
C13_HeartbeatOnlyActive ==
    [][\A t \in HbThreads :
          (connectResult = "True" /\ hbPc[t] = "loop" /\ hbPc'[t] = "checked")
          => SessionActive]_vars

\* C14: a failed heartbeat does not stop the scheduler: when a thread leaves
\* ws.send with an exception, the failure is printed and the thread is back
\* at the top of its loop, to tick again after its interval.
C14_SchedulerSurvives ==
    [][\A t \in HbThreads :
          (hbPc[t] = "in_send" /\ hbPc'[t] # "in_send"
           /\ hbLast'[2] \in {"closed", "other"})
          => /\ hbPc'[t] = "loop"
             /\ report' \in {"send_failed", "heartbeat_error"}]_vars

\* C18: at most one thread is inside ws.send at any time.
C18_WritesSerialized ==
    Cardinality({t \in HbThreads : hbPc[t] = "in_send"}) <= 1

\* C15: a transmit whose write finds the connection closed returns with the
\* failure printed and nothing raised; nothing is written then or later (no
\* queue, no retry), the connection is not reopened, and a failed send()
\* leaves the connected flag, the registry and the caller's position as they
\* were.
C15_TransmitClosed ==
    [][~linkUp
       => /\ wsLog' = wsLog
          /\ ~linkUp'
          /\ \A d \in SendDestinations, m \in Messages :
                Send(d, m, "closed") => /\ report' = "send_failed"
                                        /\ raised' = "none"
                                        /\ connected' = connected
                                        /\ registry' = registry
                                        /\ pc' = pc]_vars

C15_Witness ==
    /\ ~linkUp
    /\ report = "send_failed"
    /\ connected = "True"
    /\ pc = <<"idle">>
    /\ raised = "none"

\* the destinations of the SUBSCRIBE frames handed to the transport
SubscribeFrames == {i \in 1..Len(wsLog) : FirstLine(wsLog[i]) = CMD_SUBSCRIBE}

\* C17: subscribe registers before it transmits: while the SUBSCRIBE frame is
\* about to be written, and once it has been, the registry has the
\* destination, and a MESSAGE for it is not reported with the warning of an
\* unrouted message; the frame has headers id, ack = client and destination.
C17_RegisterThenSubscribe ==
    /\ pc[1] = "subscribe_tx" => DictHas(registry, pc[2])
    /\ \A i \in SubscribeFrames :
          LET h == HeadersOf(wsLog[i]) IN
          /\ DictHas(h, K_id)
          /\ DictHas(h, K_ack)
          /\ DictGet(h, K_ack) = V_client
          /\ DictHas(h, K_destination)
          /\ DictGet(h, K_destination) \in Destinations
          /\ DictHas(registry, DictGet(h, K_destination))
          /\ (lastEvt = "message"
              /\ lastMsg \in MessagesFor[DictGet(h, K_destination)])
             => report # "warning"

\* bytes of one code point, and of a text, in UTF-8
Utf8Bytes(c) ==
    IF c < 128 THEN 1 ELSE IF c < 2048 THEN 2 ELSE IF c < 65536 THEN 3 ELSE 4
RECURSIVE Utf8Len(_)
Utf8Len(text) ==
    IF text = << >> THEN 0 ELSE Utf8Bytes(Head(text)) + Utf8Len(Tail(text))

\* C16: every SEND frame written has a content-length header that is the
\* decimal number of UTF-8 bytes of its body.
C16_ContentLengthBytes ==
    \A i \in 1..Len(wsLog) :
        FirstLine(wsLog[i]) = CMD_SEND
        => LET h == HeadersOf(wsLog[i])
               body == WireBody(wsLog[i])
           IN /\ DictHas(h, K_content_length)
              /\ body # None
              /\ DictGet(h, K_content_length) = Str(Utf8Len(body[1]))

\* C19: the opened event is never lost: once the transport has delivered it,
\* the constructor's wait ends.
C19_OpenedNotLost ==
    openDelivered ~> (ctorPc = "done")

\* ------------------------------------------------------------- decode runs
\* _parse_message on texts that are not frames _transmit builds: up to
\* MaxLines lines, with and without colons.
MaxLines == 3

\* "", "a", "a:b", "a::", "b:", ":" and the NULL line
DecodeLines ==
    {<< >>, <<97>>, <<97, COLON, 98>>, <<97, COLON, COLON>>, <<98, COLON>>,
     <<COLON>>, <<NULL>>}

\* the text whose lines are ls
RECURSIVE WireOf(_)
WireOf(ls) ==
    IF Len(ls) = 1 THEN ls[1] ELSE ls[1] \o <<LF>> \o WireOf(Tail(ls))

DecodeTexts ==
    {WireOf(ls) : ls \in UNION {[1..n -> DecodeLines] : n \in 1..MaxLines}}

DecodeInit ==
    /\ cfg = StompInit(Host, FALSE, TRUE, None, None)
    /\ connected = "unset"
    /\ registry = << >>
    /\ pc = <<"idle">>
    /\ linkUp = TRUE
    /\ wsLog = << >>
    /\ subLog = << >>
    /\ lastEvt = "none"
    /\ lastMsg = << >>
    /\ invoked = << >>
    /\ report = "none"
    /\ raised = "none"
    /\ connectResult = "none"
    /\ c_pc = "encoded"
    /\ c_in = << >>
    /\ c_wire \in DecodeTexts
    /\ c_out = << >>
    /\ Constructed

DecodeNext == Decode

DecodeSpec == DecodeInit /\ [][DecodeNext]_vars

\* The header lines of a text as the frame grammar has them: the lines after
\* the first, before the first empty one; those with a colon; the key and
\* value of such a line.
TextLines(text) == Split(text, LF)
HeaderLines(text) ==
    {i \in 2..Len(TextLines(text)) :
        \A j \in 2..i : TextLines(text)[j] # << >>}
HasColon(line) == \E k \in 1..Len(line) : line[k] = COLON
FirstColon(line) ==
    CHOOSE k \in 1..Len(line) :
        line[k] = COLON /\ \A j \in 1..k - 1 : line[j] # COLON
KeyOf(line) == SubSeq(line, 1, FirstColon(line) - 1)
ValueOf(line) == SubSeq(line, FirstColon(line) + 1, Len(line))

\* C20: decoding any text gives a triple whose headers are exactly the header
\* lines that have a colon, each split at its first colon, a later line
\* replacing an earlier one with the same key; a line without a colon is
\* dropped and the lines after it are still decoded.
C20_TolerantDecode ==
    c_pc = "decoded"
    => LET ls == TextLines(c_wire)
           good == {i \in HeaderLines(c_wire) : HasColon(ls[i])}
           h == c_out[2]
       IN /\ Len(c_out) = 3
          /\ \A i \in good :
                /\ DictHas(h, KeyOf(ls[i]))
                /\ (\A j \in good : j > i => KeyOf(ls[j]) # KeyOf(ls[i]))
                   => DictGet(h, KeyOf(ls[i])) = ValueOf(ls[i])
          /\ \A n \in 1..Len(h) :
                /\ \E i \in good : KeyOf(ls[i]) = h[n][1]
                /\ \A m \in 1..Len(h) : h[m][1] = h[n][1] => m = n

\* "a" / "a" / "a::" : a header line without a colon, then a header whose
\* value is a colon
C20_Witness ==
    /\ c_pc = "decoded"
    /\ c_wire = <<97, LF, 97, LF, 97, COLON, COLON>>
    /\ c_out = << <<97>>, << <<<<97>>, <<COLON>>>> >>, None >>

====
